---- MODULE Spec2Model ----
(***************************************************************************)
(* A model of videoSlideExtractor (src/main.rs): main runs extract_frames  *)
(* (an ffmpeg child process writing frames/frame_%04d.png) and then        *)
(* process_frames, which lists the .png files, sorts them and deletes each *)
(* frame that are_images_similar reports similar to the image held in      *)
(* last_image.                                                             *)
(*                                                                         *)
(* The specifications share the variables and the actions:                 *)
(*   Spec      the whole program, from main's argument check to its exit;  *)
(*   ScanSpec  process_frames(output_dir, threshold) called on a directory *)
(*             and a threshold drawn from bounded sets, and called a       *)
(*             second time on what the first call left;                    *)
(*   SortSpec  process_frames on directories whose frame files carry       *)
(*             ordinals around the 4-digit padding boundary;               *)
(*   SimSpec   are_images_similar(img1, img2, threshold) on a pair of      *)
(*             images and a threshold drawn from bounded sets;             *)
(*   SimScanSpec  the behaviours of SimSpec and those of ScanSpec.         *)
(***************************************************************************)
EXTENDS Integers, Sequences, FiniteSets, TLC

VARIABLES
    pc,           \* position of the thread of control
    args_len,     \* main: args.len(), the program name included
    path_ok,      \* main: whether args[1] is valid UTF-8 (file_path.to_str())
    dir_state,    \* the path "frames": "absent", "dir" or "file"
    decoder,      \* the ffmpeg child: "not_started", "running", "exited_ok", "exited_fail"
    pngs,         \* ordinals n whose file frames/frame_<n>.png exists
    image_of,     \* the image each frame file decodes to (files are never rewritten by the scan)
    others,       \* directory entries whose extension is not "png"
    threshold,    \* process_frames / are_images_similar: threshold
    frame_files,  \* process_frames: the sorted Vec<PathBuf>, as ordinals
    idx,          \* process_frames: number of frames the for loop has consumed
    last_image,   \* process_frames: Option<DynamicImage>
    last_from,    \* history: the frame file last_image was decoded from (0: none)
    compared,     \* history: the pairs <<baseline frame, current frame>> handed to are_images_similar
    removed,      \* history: frames deleted by the current call of process_frames
    run,          \* history: calls of process_frames begun so far (0, 1 or 2)
    survivors1,   \* history: the frame files left by the first call once it returned Ok
    img1,         \* are_images_similar: first argument (SimSpec)
    img2,         \* are_images_similar: second argument (SimSpec)
    result,       \* are_images_similar: returned value (SimSpec), once pc = "sim_returned"
    failure,      \* history: the operation whose error ended the run, "none" while there is none
    start,        \* history: dir_state, pngs and others as they were in the initial state
    wide          \* are_images_similar on images too large to enumerate (WideSpec)

vars == <<pc, args_len, path_ok, dir_state, decoder, pngs, image_of, others,
          threshold, frame_files, idx, last_image, last_from, compared, removed,
          run, survivors1, img1, img2, result, failure, start, wide>>

mainVars == <<args_len, path_ok, start>>
dirVars  == <<pngs, image_of, others>>
scanVars == <<frame_files, idx, last_image, last_from, compared, removed>>
simVars  == <<img1, img2, result, wide>>

(***************************************************************************)
(* Bounds of the model.                                                    *)
(***************************************************************************)
\* largest width and largest height of an image handed to are_images_similar
MaxSide == 2
\* largest number of pixels of such an image
MaxPixels == 4
\* largest number of frame files in the directory process_frames is called on
MaxFrames == 4
\* largest number of frames the decoder writes in the whole-program specification
MaxDecoded == 4
\* largest number of frames left over from an earlier run in that specification
MaxLeftover == 2
\* largest number of frame files in a directory of SortSpec
MaxSortFrames == 2

\* Option::None (Some(x) is x itself)
None == [none |-> TRUE]

(***************************************************************************)
(* Images: image::DynamicImage, as width, height and the pixel at each     *)
(* coordinate; a pixel is Rgba<u8>, compared channel by channel.           *)
(***************************************************************************)
\* two colours that differ in the blue channel only
Pixels == {<<0, 0, 0, 255>>, <<0, 0, 1, 255>>}

Coords(w, h) == (0 .. w - 1) \X (0 .. h - 1)

ImagesOf(w, h) == {[width |-> w, height |-> h, pix |-> p] : p \in [Coords(w, h) -> Pixels]}

Dims == {d \in (0 .. MaxSide) \X (0 .. MaxSide) : d[1] * d[2] <= MaxPixels}

Images == UNION {ImagesOf(d[1], d[2]) : d \in Dims}

dimensions(img) == <<img.width, img.height>>

get_pixel(img, x, y) == img.pix[<<x, y>>]

(***************************************************************************)
(* Thresholds and ratios are exact rationals num/den with den > 0; the     *)
(* code's f64 values are their correctly rounded images, and rounding is   *)
(* monotone, so <= on the rationals agrees with <= on the f64 values       *)
(* whenever the two rationals are representable or distinct after          *)
(* rounding, as all values of the model are.                               *)
(***************************************************************************)
Rat(n, d) == [num |-> n, den |-> d]

\* (a as f64) / (b as f64) with b >= 0: 0/0 is NaN, n/0 an infinity of n's sign
F64Div(a, b) == Rat(a, b)

IsNaN(r) == r.num = 0 /\ r.den = 0

\* r < t in place of r <= t
F64Lt(r, t) ==
    IF IsNaN(r) THEN FALSE
    ELSE IF r.den = 0 THEN r.num < 0
    ELSE r.num * t.den < t.num * r.den

\* r >= t in place of r <= t
F64Ge(r, t) ==
    IF IsNaN(r) THEN FALSE
    ELSE IF r.den = 0 THEN r.num > 0
    ELSE r.num * t.den >= t.num * r.den

\* r <= t on f64, t finite: false when r is NaN
F64Le(r, t) ==
    IF IsNaN(r) THEN FALSE
    ELSE IF r.den = 0 THEN r.num < 0
    ELSE r.num * t.den <= t.num * r.den

\* a comparison of the red channel only
PixelDiffersRedOnly(p1, p2) == p1[1] # p2[1]

\* the per-pixel comparison p1 != p2 (all channels)
PixelDiffers(p1, p2) == p1 # p2

\* the nested loops of lines 43-52: diff_count after them
RECURSIVE DiffCountFrom(_, _, _, _)
DiffCountFrom(a, b, x, y) ==
    IF x >= a.width THEN 0
    ELSE IF y >= a.height THEN DiffCountFrom(a, b, x + 1, 0)
    ELSE (IF PixelDiffers(get_pixel(a, x, y), get_pixel(b, x, y)) THEN 1 ELSE 0)
         + DiffCountFrom(a, b, x, y + 1)

\* diff_count is an i32 and total_pixels a u32 (lines 41, 54); with at most
\* MaxPixels pixels neither leaves its range, so no wrapping (release build) or
\* overflow panic (debug build) occurs in the images considered here
diff_count(a, b) == DiffCountFrom(a, b, 0, 0)

total_pixels(a) == a.width * a.height

difference_ratio(a, b) == F64Div(diff_count(a, b), total_pixels(a))

SameDimensions(a, b) == dimensions(a) = dimensions(b)

\* a dimension mismatch counted as every pixel differing (ratio 1)
mismatch_as_full_difference(a, b, t) ==
    IF ~SameDimensions(a, b)
    THEN F64Le(Rat(1, 1), t)
    ELSE F64Le(difference_ratio(a, b), t)

\* the first image only required to fit inside the second
fits_inside_check(a, b, t) ==
    IF a.width > b.width \/ a.height > b.height
    THEN FALSE
    ELSE F64Le(difference_ratio(a, b), t)

are_images_similar(a, b, t) ==
    IF ~SameDimensions(a, b)
    THEN FALSE
    ELSE F64Le(difference_ratio(a, b), t)

(***************************************************************************)
(* File names.  The decoder is given the pattern frames/frame_%04d.png     *)
(* (line 22) and numbers its output 1, 2, ...; a path is modelled as the   *)
(* bytes of its file name, all paths sharing the parent "frames".          *)
(***************************************************************************)
RECURSIVE Digits(_)
Digits(n) == IF n < 10 THEN <<48 + n>> ELSE Digits(n \div 10) \o <<48 + (n % 10)>>

RECURSIVE ZeroPad(_, _)
ZeroPad(s, w) == IF Len(s) >= w THEN s ELSE ZeroPad(<<48>> \o s, w)

\* printf's %04d: at least 4 digits, more when the number needs them
Format04d(n) == ZeroPad(Digits(n), 4)

ExtBytes(ext) ==
    CASE ext = "png" -> <<112, 110, 103>>
      [] ext = "jpg" -> <<106, 112, 103>>
      [] OTHER -> <<>>

\* "frame_" ++ %04d ++ "." ++ ext
FileName(n, ext) == <<102, 114, 97, 109, 101, 95>> \o Format04d(n) \o <<46>> \o ExtBytes(ext)

FrameName(n) == FileName(n, "png")

\* Ord for paths with the same parent: the file names compared byte by byte
RECURSIVE BytesLess(_, _)
BytesLess(s, t) ==
    IF t = <<>> THEN FALSE
    ELSE IF s = <<>> THEN TRUE
    ELSE IF Head(s) # Head(t) THEN Head(s) < Head(t)
    ELSE BytesLess(Tail(s), Tail(t))

PathLess(a, b) == BytesLess(FrameName(a), FrameName(b))

\* Vec::sort on the paths of the frames in S (line 68)
RECURSIVE SortPaths(_)
SortPaths(S) ==
    IF S = {} THEN <<>>
    ELSE LET m == CHOOSE x \in S : \A y \in S : ~PathLess(y, x)
         IN  <<m>> \o SortPaths(S \ {m})

\* the entries of the directory, and the filter of line 64
png_entry(n) == [ord |-> n, ext |-> "png"]
DirEntries == {png_entry(n) : n \in pngs} \cup others
\* the extension filter dropped: every entry kept
AnyExtension(e) == TRUE
HasPngExtension(e) == e.ext = "png"

\* lines 62-68: the listing, filtered, mapped to paths and sorted
ListFrameFiles == SortPaths({e.ord : e \in {d \in DirEntries : HasPngExtension(d)}})

(***************************************************************************)
(* The inputs the specifications draw from.                                *)
(***************************************************************************)
\* main's similarity_threshold (line 114)
similarity_threshold == Rat(1, 100)

\* thresholds process_frames is called with: main's 0.01, 0, 1/2 and 1
ScanThresholds == {Rat(0, 1), similarity_threshold, Rat(1, 2), Rat(1, 1)}

\* thresholds are_images_similar is called with: also 1/4, one below 0, one above 1
SimThresholds == ScanThresholds \cup {Rat(1, 4), Rat(-1, 2), Rat(2, 1)}

\* decoded frames: what image::open returns for a PNG file, whose width and
\* height are never 0; here the 1x2 images and one 2x1 image
FrameImages ==
    ImagesOf(1, 2) \cup {img \in ImagesOf(2, 1) : \A c \in Coords(2, 1) : img.pix[c] = <<0, 0, 0, 255>>}

\* entries of the directory that are not .png files: frame_0000.jpg (a path is
\* identified by its number; the decoder numbers its frames from 1)
OtherEntries == {[ord |-> 0, ext |-> "jpg"]}

\* ordinals around the 4-digit boundary of frame_%04d.png
SortOrdinals == {1, 2, 10, 999, 1000, 9999, 10000, 10001}

(***************************************************************************)
(* process_frames (lines 61-93).                                           *)
(***************************************************************************)
\* the frame the for loop of line 72 is at
Frame == frame_files[idx + 1]

\* image::open(&frame) when it succeeds
current_image == image_of[Frame]

\* last_image replaced only when the frame was kept
last_image_kept_on_delete(last, current, similar) == IF similar THEN last ELSE current

\* line 89: what last_image holds after an iteration that compared `current`
\* against `last` (similar: whether the frame was found similar and deleted)
new_last_image(last, current, similar) == current

\* line 62: fs::read_dir(output_dir)? fails when the path is no directory
ReadDirError ==
    /\ pc = "process_frames"
    /\ dir_state # "dir"
    /\ pc' = "scan_err"
    /\ failure' = "read_dir"
    /\ UNCHANGED <<mainVars, dirVars, scanVars, simVars, dir_state, decoder,
                   threshold, run, survivors1>>

\* lines 62-70: list, filter, sort; last_image = None (read_dir yields every
\* entry of the directory: no entry is lost to the filter_map of line 63)
ReadDirSort ==
    /\ pc = "process_frames"
    /\ dir_state = "dir"
    /\ frame_files' = ListFrameFiles
    /\ idx' = 0
    /\ last_image' = None
    /\ last_from' = 0
    /\ compared' = {}
    /\ removed' = {}
    /\ pc' = "scan_loop"
    /\ UNCHANGED <<mainVars, dirVars, simVars, dir_state, decoder, threshold,
                   run, survivors1, failure>>

\* a frame that fails to decode skipped, the loop going on
DecodeErrorSkipped ==
    /\ pc = "scan_loop"
    /\ idx < Len(frame_files)
    /\ idx' = idx + 1
    /\ failure' = "decode"
    /\ UNCHANGED <<pc, mainVars, dirVars, simVars, dir_state, decoder, threshold,
                   frame_files, last_image, last_from, compared, removed, run,
                   survivors1>>

\* lines 74-76: image::open fails; the error is returned by `?`
DecodeError ==
    /\ pc = "scan_loop"
    /\ idx < Len(frame_files)
    /\ pc' = "scan_err"
    /\ failure' = "decode"
    /\ UNCHANGED <<mainVars, dirVars, scanVars, simVars, dir_state, decoder,
                   threshold, run, survivors1>>

\* the first frame deleted, as if an absent last_image were similar to anything
FirstFrameDeleted ==
    /\ pc = "scan_loop"
    /\ idx < Len(frame_files)
    /\ last_image = None
    /\ pngs' = pngs \ {Frame}
    /\ removed' = removed \cup {Frame}
    /\ last_image' = current_image
    /\ last_from' = Frame
    /\ idx' = idx + 1
    /\ UNCHANGED <<pc, mainVars, simVars, dir_state, decoder, threshold, image_of,
                   others, frame_files, compared, run, survivors1, failure>>

\* lines 85-89: no last_image yet
FirstFrame ==
    /\ pc = "scan_loop"
    /\ idx < Len(frame_files)
    /\ last_image = None
    /\ last_image' = current_image
    /\ last_from' = Frame
    /\ idx' = idx + 1
    /\ UNCHANGED <<pc, mainVars, dirVars, simVars, dir_state, decoder, threshold,
                   frame_files, compared, removed, run, survivors1, failure>>

\* lines 79-81, 89: similar to last_image, and fs::remove_file succeeds (the
\* entry of that path leaves the directory, whatever its extension)
SimilarFrame ==
    /\ pc = "scan_loop"
    /\ idx < Len(frame_files)
    /\ last_image # None
    /\ are_images_similar(last_image, current_image, threshold)
    /\ compared' = compared \cup {<<last_from, Frame>>}
    /\ pngs' = pngs \ {Frame}
    /\ others' = {e \in others : e.ord # Frame}
    /\ removed' = removed \cup {Frame}
    /\ last_image' = new_last_image(last_image, current_image, TRUE)
    /\ last_from' = new_last_image(last_from, Frame, TRUE)
    /\ idx' = idx + 1
    /\ UNCHANGED <<pc, mainVars, simVars, dir_state, decoder, threshold, image_of,
                   frame_files, run, survivors1, failure>>

\* line 81: fs::remove_file fails; the error is returned by `?`
RemoveError ==
    /\ pc = "scan_loop"
    /\ idx < Len(frame_files)
    /\ last_image # None
    /\ are_images_similar(last_image, current_image, threshold)
    /\ compared' = compared \cup {<<last_from, Frame>>}
    /\ pc' = "scan_err"
    /\ failure' = "remove_file"
    /\ UNCHANGED <<mainVars, dirVars, simVars, dir_state, decoder, threshold,
                   frame_files, idx, last_image, last_from, removed, run, survivors1>>

\* lines 82-84, 89: not similar to last_image
UniqueFrame ==
    /\ pc = "scan_loop"
    /\ idx < Len(frame_files)
    /\ last_image # None
    /\ ~are_images_similar(last_image, current_image, threshold)
    /\ compared' = compared \cup {<<last_from, Frame>>}
    /\ last_image' = new_last_image(last_image, current_image, FALSE)
    /\ last_from' = new_last_image(last_from, Frame, FALSE)
    /\ idx' = idx + 1
    /\ UNCHANGED <<pc, mainVars, dirVars, simVars, dir_state, decoder, threshold,
                   frame_files, removed, run, survivors1, failure>>

\* an error returned when no frame was found
ScanReturnErrWhenEmpty ==
    /\ pc = "scan_loop"
    /\ idx = Len(frame_files)
    /\ IF frame_files = <<>>
       THEN pc' = "scan_err" /\ failure' = "read_dir" /\ UNCHANGED survivors1
       ELSE pc' = "scan_ok" /\ UNCHANGED failure
                            /\ survivors1' = IF run = 1 THEN pngs ELSE survivors1
    /\ UNCHANGED <<mainVars, dirVars, scanVars, simVars, dir_state, decoder,
                   threshold, run>>

\* line 92: the loop is over, Ok(())
ScanReturn ==
    /\ pc = "scan_loop"
    /\ idx = Len(frame_files)
    /\ pc' = "scan_ok"
    /\ survivors1' = IF run = 1 THEN pngs ELSE survivors1
    /\ UNCHANGED <<mainVars, dirVars, scanVars, simVars, dir_state, decoder,
                   threshold, run, failure>>

\* process_frames called again on the directory its first call left
Rerun ==
    /\ pc = "scan_ok"
    /\ run = 1
    /\ run' = 2
    /\ pc' = "process_frames"
    /\ UNCHANGED <<mainVars, dirVars, scanVars, simVars, dir_state, decoder,
                   threshold, survivors1, failure>>

ScanNext ==
    \/ ReadDirError
    \/ ReadDirSort
    \/ DecodeError
    \/ FirstFrame
    \/ SimilarFrame
    \/ RemoveError
    \/ UniqueFrame
    \/ ScanReturn
    \/ Rerun

(***************************************************************************)
(* main (lines 95-123) and extract_frames (lines 10-32).                   *)
(***************************************************************************)
\* the usage message printed without the exit
MainUsageNoExit ==
    /\ pc = "main"
    /\ args_len # 2
    /\ pc' = "extract_frames"
    /\ UNCHANGED <<mainVars, dirVars, scanVars, simVars, dir_state, decoder,
                   threshold, run, survivors1, failure>>

\* lines 97-100: wrong number of arguments, exit(1)
MainUsage ==
    /\ pc = "main"
    /\ args_len # 2
    /\ pc' = "exit_usage"
    /\ UNCHANGED <<mainVars, dirVars, scanVars, simVars, dir_state, decoder,
                   threshold, run, survivors1, failure>>

\* lines 104-110: the path is not valid UTF-8, exit(1)
MainInvalidPath ==
    /\ pc = "main"
    /\ args_len = 2
    /\ ~path_ok
    /\ pc' = "exit_usage"
    /\ UNCHANGED <<mainVars, dirVars, scanVars, simVars, dir_state, decoder,
                   threshold, run, survivors1, failure>>

\* line 117: extract_frames is called
MainCallExtract ==
    /\ pc = "main"
    /\ args_len = 2
    /\ path_ok
    /\ pc' = "extract_frames"
    /\ UNCHANGED <<mainVars, dirVars, scanVars, simVars, dir_state, decoder,
                   threshold, run, survivors1, failure>>

\* line 12: Path::exists is true for a directory and for any other file
path_exists == dir_state # "absent"

\* lines 12-14: the directory is there already, or fs::create_dir makes it
EnsureDir ==
    /\ pc = "extract_frames"
    /\ \/ path_exists /\ UNCHANGED dir_state
       \/ ~path_exists /\ dir_state' = "dir"
    /\ pc' = "spawn"
    /\ UNCHANGED <<mainVars, dirVars, scanVars, simVars, decoder, threshold, run,
                   survivors1, failure>>

\* line 13: fs::create_dir fails; the error is returned by `?` (lines 13, 117)
CreateDirError ==
    /\ pc = "extract_frames"
    /\ ~path_exists
    /\ pc' = "exit_err"
    /\ failure' = "create_dir"
    /\ UNCHANGED <<mainVars, dirVars, scanVars, simVars, dir_state, decoder,
                   threshold, run, survivors1>>

\* the launch error dropped, extract_frames returning Ok
spawn_error_ignored == "extract_ok"

\* where control goes when Command::status fails to start ffmpeg: the `?` of
\* line 23 returns the error from extract_frames, the `?` of line 117 from main
after_spawn_error == "exit_err"

\* lines 17-23: ffmpeg cannot be started
SpawnError ==
    /\ pc = "spawn"
    /\ failure' = "spawn"
    /\ pc' = after_spawn_error
    /\ UNCHANGED <<mainVars, dirVars, scanVars, simVars, dir_state, decoder,
                   threshold, run, survivors1>>

\* lines 17-23: ffmpeg is started; status() waits for it
SpawnDecoder ==
    /\ pc = "spawn"
    /\ decoder' = "running"
    /\ pc' = "wait"
    /\ UNCHANGED <<mainVars, dirVars, scanVars, simVars, dir_state, threshold, run,
                   survivors1, failure>>

\* a non-zero exit status returned as an error
status_propagated(success) == IF success THEN "Ok" ELSE "Err"

\* lines 25-31: what extract_frames returns once ffmpeg has exited
extract_result(success) == "Ok"

\* the frame files after ffmpeg has written n frames f[1..n] over them
Written(n, f) ==
    [i \in pngs \cup (1 .. n) |-> IF i <= n THEN f[i] ELSE image_of[i]]

\* ffmpeg runs to its end: it writes frames 1..n into the directory (none when
\* "frames" is no directory, and then it fails) and exits; lines 25-31 follow
DecoderExit ==
    /\ pc = "wait"
    /\ \E success \in BOOLEAN, n \in 0 .. MaxDecoded :
          /\ dir_state # "dir" => (~success /\ n = 0)
          /\ \E f \in [1 .. n -> FrameImages] :
                /\ pngs' = pngs \cup (1 .. n)
                /\ image_of' = Written(n, f)
          /\ decoder' = IF success THEN "exited_ok" ELSE "exited_fail"
          /\ IF extract_result(success) = "Ok"
             THEN pc' = "extract_ok" /\ UNCHANGED failure
             ELSE pc' = "exit_err" /\ failure' = "decoder"
    /\ UNCHANGED <<mainVars, scanVars, simVars, dir_state, others, threshold, run,
                   survivors1>>

\* line 120: process_frames is called
MainCallScan ==
    /\ pc = "extract_ok"
    /\ run' = run + 1
    /\ pc' = "process_frames"
    /\ UNCHANGED <<mainVars, dirVars, scanVars, simVars, dir_state, decoder,
                   threshold, survivors1, failure>>

\* lines 120-122: process_frames returned Ok, main returns Ok(())
MainReturnOk ==
    /\ pc = "scan_ok"
    /\ pc' = "exit_ok"
    /\ UNCHANGED <<mainVars, dirVars, scanVars, simVars, dir_state, decoder,
                   threshold, run, survivors1, failure>>

\* line 120: process_frames returned an error, main returns it
MainReturnErr ==
    /\ pc = "scan_err"
    /\ pc' = "exit_err"
    /\ UNCHANGED <<mainVars, dirVars, scanVars, simVars, dir_state, decoder,
                   threshold, run, survivors1, failure>>

\* process_frames without its second call
ScanOnce ==
    \/ ReadDirError
    \/ ReadDirSort
    \/ DecodeError
    \/ FirstFrame
    \/ SimilarFrame
    \/ RemoveError
    \/ UniqueFrame
    \/ ScanReturn

Next ==
    \/ MainUsage
    \/ MainInvalidPath
    \/ MainCallExtract
    \/ EnsureDir
    \/ CreateDirError
    \/ SpawnError
    \/ SpawnDecoder
    \/ DecoderExit
    \/ MainCallScan
    \/ ScanOnce
    \/ MainReturnOk
    \/ MainReturnErr

(***************************************************************************)
(* are_images_similar called on its own (lines 35-58).                     *)
(***************************************************************************)
SimCall ==
    /\ pc = "are_images_similar"
    /\ result' = are_images_similar(img1, img2, threshold)
    /\ pc' = "sim_returned"
    /\ UNCHANGED <<mainVars, dirVars, scanVars, dir_state, decoder, threshold,
                   run, survivors1, img1, img2, wide, failure>>

SimNext == SimCall

(***************************************************************************)
(* Initial states.                                                         *)
(***************************************************************************)
Idle ==
    /\ args_len = 2
    /\ path_ok = TRUE
    /\ decoder = "not_started"
    /\ frame_files = <<>>
    /\ idx = 0
    /\ last_image = None
    /\ last_from = 0
    /\ compared = {}
    /\ removed = {}
    /\ survivors1 = {}
    /\ failure = "none"

\* the directory of the initial state, kept for the properties
StartRecorded == start = [dir_state |-> dir_state, pngs |-> pngs, others |-> others]

NoWideCall == wide = None

NoCall ==
    /\ img1 = None
    /\ img2 = None
    /\ result = FALSE
    /\ NoWideCall

ScanInit ==
    /\ Idle
    /\ NoCall
    /\ pc = "process_frames"
    /\ run = 1
    /\ threshold \in ScanThresholds
    /\ \E n \in 0 .. MaxFrames :
          /\ pngs = 1 .. n
          /\ image_of \in [1 .. n -> FrameImages]
    /\ others \in SUBSET OtherEntries
    /\ dir_state \in (IF pngs = {} /\ others = {} THEN {"dir", "absent", "file"} ELSE {"dir"})
    /\ StartRecorded

SortInit ==
    /\ Idle
    /\ NoCall
    /\ pc = "process_frames"
    /\ run = 1
    /\ threshold = similarity_threshold
    /\ pngs \in {S \in SUBSET SortOrdinals : Cardinality(S) <= MaxSortFrames}
    /\ image_of \in [pngs -> FrameImages]
    /\ others = {}
    /\ dir_state \in (IF pngs = {} THEN {"dir", "absent"} ELSE {"dir"})
    /\ StartRecorded

SimInit ==
    /\ Idle
    /\ pc = "are_images_similar"
    /\ run = 0
    /\ threshold \in SimThresholds
    /\ img1 \in Images
    /\ img2 \in Images
    /\ result = FALSE
    /\ pngs = {}
    /\ image_of = <<>>
    /\ others = {}
    /\ dir_state = "dir"
    /\ StartRecorded
    /\ NoWideCall

\* the program is started: any argument list, "frames" absent, a file, or a
\* directory holding what an earlier run left
Init ==
    /\ pc = "main"
    /\ args_len \in 1 .. 3
    /\ path_ok \in BOOLEAN
    /\ decoder = "not_started"
    /\ threshold = similarity_threshold
    /\ dir_state \in {"absent", "file", "dir"}
    /\ \E n \in 0 .. MaxLeftover :
          /\ n > 0 => dir_state = "dir"
          /\ pngs = 1 .. n
          /\ image_of \in [1 .. n -> FrameImages]
    /\ others \in (IF dir_state = "dir" THEN SUBSET OtherEntries ELSE {{}})
    /\ frame_files = <<>>
    /\ idx = 0
    /\ last_image = None
    /\ last_from = 0
    /\ compared = {}
    /\ removed = {}
    /\ run = 0
    /\ survivors1 = {}
    /\ failure = "none"
    /\ StartRecorded
    /\ NoCall

Spec == Init /\ [][Next]_vars

ScanSpec == ScanInit /\ [][ScanNext]_vars

SortSpec == SortInit /\ [][ScanNext]_vars

SimSpec == SimInit /\ [][SimNext]_vars

\* are_images_similar on its own and inside process_frames
SimScanSpec == (SimInit \/ ScanInit) /\ [][SimNext \/ ScanNext]_vars

(***************************************************************************)
(* are_images_similar on images of any u32 width and height.  The numbers  *)
(* are sequences of base-256 digits, least significant first and without   *)
(* leading zero digits, so that a product of two u32 values is computed    *)
(* exactly; the images are given by their dimensions and by how many of    *)
(* their pixels differ.                                                    *)
(***************************************************************************)
RECURSIVE FromInt(_)
FromInt(n) == IF n = 0 THEN <<>> ELSE <<n % 256>> \o FromInt(n \div 256)

RECURSIVE Norm(_)
Norm(s) ==
    IF s = <<>> THEN <<>>
    ELSE IF s[Len(s)] = 0 THEN Norm(SubSeq(s, 1, Len(s) - 1))
    ELSE s

DigitAt(s, i) == IF i <= Len(s) THEN s[i] ELSE 0

RECURSIVE AddCarry(_, _, _)
AddCarry(a, b, c) ==
    IF a = <<>> /\ b = <<>> THEN FromInt(c)
    ELSE LET x == DigitAt(a, 1) + DigitAt(b, 1) + c
         IN  <<x % 256>> \o AddCarry(SubSeq(a, 2, Len(a)), SubSeq(b, 2, Len(b)),
                                     x \div 256)

BigAdd(a, b) == Norm(AddCarry(a, b, 0))

RECURSIVE MulDigit(_, _, _)
MulDigit(a, d, c) ==
    IF a = <<>> THEN FromInt(c)
    ELSE LET x == a[1] * d + c
         IN  <<x % 256>> \o MulDigit(Tail(a), d, x \div 256)

\* the mathematical product
RECURSIVE BigMul(_, _)
BigMul(a, b) ==
    IF b = <<>> THEN <<>>
    ELSE BigAdd(MulDigit(a, b[1], 0), <<0>> \o BigMul(a, Tail(b)))

RECURSIVE BigLess(_, _)
BigLess(a, b) ==
    IF Len(a) # Len(b) THEN Len(a) < Len(b)
    ELSE IF Len(a) = 0 THEN FALSE
    ELSE IF a[Len(a)] # b[Len(a)] THEN a[Len(a)] < b[Len(a)]
    ELSE BigLess(SubSeq(a, 1, Len(a) - 1), SubSeq(b, 1, Len(a) - 1))

\* 2^31 and 2^32
I32Limit == <<0, 0, 0, 128>>
U32Limit == <<0, 0, 0, 0, 1>>

FitsI32(n) == BigLess(n, I32Limit)
FitsU32(n) == BigLess(n, U32Limit)

\* the low 32 bits
Low32(n) == Norm(SubSeq(n, 1, IF Len(n) < 4 THEN Len(n) ELSE 4))

\* 2^32 - n, for 0 < n < 2^32
Negate32(n) == Low32(AddCarry([i \in 1 .. 4 |-> 255 - DigitAt(n, i)], <<1>>, 0))

\* an i32 as sign and magnitude; an i32 holding the low 32 bits of n
Signed(neg, mag) == [neg |-> neg, mag |-> mag]
WrapI32(n) ==
    IF FitsI32(Low32(n)) THEN Signed(FALSE, Low32(n))
    ELSE Signed(TRUE, Negate32(Low32(n)))

\* width * height in u32 arithmetic without overflow checks
wrapping_total_pixels(w, h) == Low32(BigMul(w, h))

\* diff_count after k executions of diff_count += 1 without overflow checks
wrapping_diff_count(k) == WrapI32(k)

\* the widths and heights tried
U32Samples ==
    {FromInt(0), FromInt(1), FromInt(3), FromInt(32768), FromInt(46341),
     FromInt(65536), I32Limit, <<255, 255, 255, 255>>}

\* how many pixels of two images of w x h pixels differ
Differing == {"none", "one", "all"}
DifferingPixels(w, h, d) ==
    IF d = "all" THEN BigMul(w, h)
    ELSE IF d = "one" /\ BigMul(w, h) # <<>> THEN FromInt(1)
    ELSE <<>>

\* diff_count as f64 / total_pixels as f64 <= threshold, for threshold >= 0:
\* x/0 is -inf, NaN or +inf
wide_ratio_le(count, total, t) ==
    IF total = <<>> THEN count.neg
    ELSE IF count.neg THEN TRUE
    ELSE ~BigLess(BigMul(total, FromInt(t.num)), BigMul(count.mag, FromInt(t.den)))

\* a build with overflow checks panics where diff_count or width * height
\* overflows; a build without them goes on with the wrapped values
WideCall ==
    /\ pc = "wide_call"
    /\ LET k == DifferingPixels(wide.width, wide.height, wide.differing)
           n == BigMul(wide.width, wide.height)
       IN  IF wide.overflow_checks /\ (~FitsI32(k) \/ ~FitsU32(n))
           THEN /\ pc' = "panicked"
                /\ UNCHANGED wide
           ELSE /\ pc' = "wide_returned"
                /\ wide' = [wide EXCEPT
                      !.diff_count = wrapping_diff_count(k),
                      !.total_pixels = wrapping_total_pixels(wide.width, wide.height),
                      !.result = wide_ratio_le(
                          wrapping_diff_count(k),
                          wrapping_total_pixels(wide.width, wide.height),
                          threshold)]
    /\ UNCHANGED <<mainVars, dir_state, decoder, dirVars, threshold, scanVars,
                   run, survivors1, img1, img2, result, failure>>

WideNext == WideCall

WideInit ==
    /\ Idle
    /\ pc = "wide_call"
    /\ run = 0
    /\ threshold \in ScanThresholds
    /\ img1 = None
    /\ img2 = None
    /\ result = FALSE
    /\ pngs = {}
    /\ image_of = <<>>
    /\ others = {}
    /\ dir_state = "dir"
    /\ StartRecorded
    /\ \E w \in U32Samples, h \in U32Samples, d \in Differing, c \in BOOLEAN :
          wide = [width |-> w, height |-> h, differing |-> d,
                  overflow_checks |-> c, diff_count |-> Signed(FALSE, <<>>),
                  total_pixels |-> <<>>, result |-> FALSE]

WideSpec == WideInit /\ [][WideNext]_vars

(***************************************************************************)
(* Vocabulary of the properties.                                           *)
(***************************************************************************)
\* the coordinates at which two images of equal dimensions differ
DifferingCoords(a, b) == {c \in Coords(a.width, a.height) : a.pix[c] # b.pix[c]}

PixelCount(a) == a.width * a.height

\* k/N <= t for k differing pixels out of N > 0
RatioAtMost(k, N, t) == k * t.den <= t.num * N

\* same dimensions and difference ratio <= t
NearDuplicate(a, b, t) ==
    /\ dimensions(a) = dimensions(b)
    /\ RatioAtMost(Cardinality(DifferingCoords(a, b)), PixelCount(a), t)

\* the image of the i-th frame in sorted order
ImageAt(i) == image_of[frame_files[i]]

Scanning == pc \in {"scan_loop", "scan_ok"}

\* the frame most recently retained among those the loop has been through
LastRetained ==
    LET kept == {i \in 1 .. idx : frame_files[i] \notin removed}
        last == CHOOSE i \in kept : \A j \in kept : j <= i
    IN  frame_files[last]

(***************************************************************************)
(* C1.  During process_frames the baseline (last_image) is always the most *)
(* recently retained frame: a deleted frame never becomes the baseline and *)
(* no frame is compared against a deleted one.                             *)
(***************************************************************************)
C1_BaselineIsLastRetained ==
    /\ (pc = "scan_loop" /\ idx > 0) => last_from = LastRetained
    /\ \A p \in compared : p[1] \notin removed

(***************************************************************************)
(* C2.  A second call of process_frames on the directory left by a first   *)
(* successful call deletes nothing: the surviving files are the same.      *)
(***************************************************************************)
C2_SecondScanDeletesNothing ==
    (pc = "scan_ok" /\ run = 2) => (pngs = survivors1 /\ removed = {})

(***************************************************************************)
(* C3.  Only frames adjacent in sorted order are compared, and a frame     *)
(* other than the first is deleted exactly when it is a near-duplicate     *)
(* (same dimensions, difference ratio <= threshold) of its immediate       *)
(* predecessor in the sorted sequence.                                     *)
(***************************************************************************)
C3_AdjacentPairRule ==
    /\ \A p \in compared :
          \E i \in 2 .. Len(frame_files) : p = <<frame_files[i - 1], frame_files[i]>>
    /\ Scanning =>
          \A i \in 2 .. idx :
              /\ <<frame_files[i - 1], frame_files[i]>> \in compared
              /\ frame_files[i] \in removed <=> NearDuplicate(ImageAt(i - 1), ImageAt(i), threshold)
              /\ frame_files[i] \in pngs <=> frame_files[i] \notin removed

\* a frame kept after a deleted predecessor, although it is a near-duplicate of
\* the last frame kept before it
C3_Witness ==
    /\ pc = "scan_ok"
    /\ \E i \in 3 .. Len(frame_files) :
          /\ frame_files[i - 2] \notin removed
          /\ frame_files[i - 1] \in removed
          /\ frame_files[i] \notin removed
          /\ NearDuplicate(ImageAt(i - 2), ImageAt(i), threshold)

(***************************************************************************)
(* C4.  When the sorted frames form runs of pixel-identical frames and the *)
(* frames of neighbouring runs have the same dimensions and differ in more *)
(* than threshold of their pixels, a successful scan leaves exactly the    *)
(* first frame of each run.                                                *)
(***************************************************************************)
RunsOfIdenticalFrames ==
    \A i \in 2 .. Len(frame_files) :
        \/ ImageAt(i - 1) = ImageAt(i)
        \/ /\ dimensions(ImageAt(i - 1)) = dimensions(ImageAt(i))
           /\ ~NearDuplicate(ImageAt(i - 1), ImageAt(i), threshold)

FirstOfEachRun ==
    {frame_files[i] : i \in {j \in 1 .. Len(frame_files) : j = 1 \/ ImageAt(j - 1) # ImageAt(j)}}

C4_FirstOfEachRunSurvives ==
    (pc = "scan_ok" /\ threshold.num >= 0 /\ RunsOfIdenticalFrames) =>
        /\ pngs = FirstOfEachRun
        /\ removed = {frame_files[i] : i \in 1 .. Len(frame_files)} \ FirstOfEachRun

\* two identical frames, then two identical frames differing from them in every
\* pixel, at main's threshold 0.01: the first and the third survive
C4_Witness ==
    /\ pc = "scan_ok"
    /\ run = 1
    /\ threshold = similarity_threshold
    /\ Len(frame_files) = 4
    /\ ImageAt(1) = ImageAt(2)
    /\ dimensions(ImageAt(2)) = dimensions(ImageAt(3))
    /\ DifferingCoords(ImageAt(2), ImageAt(3)) = Coords(ImageAt(2).width, ImageAt(2).height)
    /\ ImageAt(3) = ImageAt(4)
    /\ pngs = {frame_files[1], frame_files[3]}

(***************************************************************************)
(* C5.  are_images_similar returns false for two images whose dimensions   *)
(* differ, whatever the threshold (1 included), and process_frames never   *)
(* deletes a frame whose dimensions differ from those of the image it was  *)
(* compared against.                                                       *)
(***************************************************************************)
C5_DimensionMismatchNeverSimilar ==
    /\ (pc = "sim_returned" /\ dimensions(img1) # dimensions(img2)) => result = FALSE
    /\ \A p \in compared :
          dimensions(image_of[p[1]]) # dimensions(image_of[p[2]]) =>
              (p[2] \notin removed /\ p[2] \in pngs)

\* a 1x2 image against a 2x1 image (as many pixels, other dimensions) at threshold 1
C5_Witness ==
    /\ pc = "sim_returned"
    /\ threshold = Rat(1, 1)
    /\ dimensions(img1) # dimensions(img2)
    /\ PixelCount(img1) = PixelCount(img2)
    /\ PixelCount(img1) > 0
    /\ result = FALSE

(***************************************************************************)
(* C6.  For two images of equal dimensions differing at exactly k of their *)
(* N = width*height coordinates, are_images_similar returns true exactly   *)
(* when k/N <= threshold; identical images (k = 0) are similar for every   *)
(* threshold >= 0.                                                         *)
(***************************************************************************)
C6_RatioRule ==
    (pc = "sim_returned" /\ dimensions(img1) = dimensions(img2)) =>
        /\ PixelCount(img1) > 0 =>
              (result <=> RatioAtMost(Cardinality(DifferingCoords(img1, img2)),
                                      PixelCount(img1), threshold))
        /\ (img1 = img2 /\ threshold.num >= 0) => result = TRUE

(***************************************************************************)
(* C7.  With threshold 1 a successful scan of a non-empty sequence of      *)
(* frames leaves exactly one frame, the first in sorted order.             *)
(***************************************************************************)
C7_OnlyFirstSurvives ==
    (pc = "scan_ok" /\ threshold = Rat(1, 1) /\ Len(frame_files) >= 1) =>
        pngs = {frame_files[1]}

(***************************************************************************)
(* C7, amended.  With threshold 1 a successful scan deletes exactly the    *)
(* frames whose dimensions equal those of their immediate predecessor in   *)
(* sorted order: the first frame and every frame whose dimensions differ   *)
(* from its predecessor's survive (one frame, the first, when all frames   *)
(* have the same dimensions).                                              *)
(***************************************************************************)
C7_SurvivorsAtThresholdOne ==
    (pc = "scan_ok" /\ threshold = Rat(1, 1) /\ Len(frame_files) >= 1) =>
        pngs = {frame_files[1]} \cup
               {frame_files[i] : i \in {j \in 2 .. Len(frame_files) :
                                           dimensions(ImageAt(j - 1)) # dimensions(ImageAt(j))}}

\* at threshold 1: a frame differing from its predecessor in every pixel is
\* deleted, and a frame of other dimensions than its predecessor survives
C7_Witness ==
    /\ pc = "scan_ok"
    /\ threshold = Rat(1, 1)
    /\ \E i \in 2 .. Len(frame_files) :
          /\ dimensions(ImageAt(i - 1)) = dimensions(ImageAt(i))
          /\ DifferingCoords(ImageAt(i - 1), ImageAt(i)) = Coords(ImageAt(i).width, ImageAt(i).height)
          /\ frame_files[i] \in removed
    /\ \E i \in 2 .. Len(frame_files) :
          /\ dimensions(ImageAt(i - 1)) # dimensions(ImageAt(i))
          /\ frame_files[i] \in pngs

(***************************************************************************)
(* C8.  When ffmpeg was started and exited with a non-zero status,         *)
(* extract_frames returns Ok and main goes on to call process_frames; the  *)
(* run fails only if process_frames itself fails.                          *)
(***************************************************************************)
C8_DecoderFailureIsSoft ==
    decoder = "exited_fail" =>
        /\ pc \in {"extract_ok", "process_frames", "scan_loop", "scan_ok", "scan_err",
                   "exit_ok", "exit_err"}
        /\ pc # "extract_ok" => run = 1
        /\ pc = "exit_err" => failure \in {"read_dir", "decode", "remove_file"}
        /\ pc = "exit_ok" => failure = "none"

\* ffmpeg failed, the scan ran on the files that were there, deleted one, and
\* the process ended with success
C8_Witness ==
    /\ decoder = "exited_fail"
    /\ pc = "exit_ok"
    /\ removed # {}

(***************************************************************************)
(* C9.  No step of the scan happens before ffmpeg has been started and has *)
(* exited; when ffmpeg cannot be started the run ends with an error and    *)
(* the scan never begins (nothing is listed, compared or deleted).         *)
(***************************************************************************)
ScanBegun ==
    \/ run > 0
    \/ pc \in {"process_frames", "scan_loop", "scan_ok", "scan_err", "exit_ok"}
    \/ frame_files # <<>>
    \/ idx > 0
    \/ last_image # None
    \/ compared # {}
    \/ removed # {}

C9_ExtractionBeforeScan ==
    /\ ScanBegun => decoder \in {"exited_ok", "exited_fail"}
    /\ failure = "spawn" => (pc = "exit_err" /\ decoder = "not_started" /\ ~ScanBegun)

\* ffmpeg could not be started while the directory held two identical frames:
\* the run ended with an error and both are still there
C9_Witness ==
    /\ failure = "spawn"
    /\ pc = "exit_err"
    /\ Cardinality(pngs) >= 2
    /\ image_of[1] = image_of[2]

(***************************************************************************)
(* C10.  For frame files named by the pattern frame_%04d.png, the sorted   *)
(* list process_frames walks is in increasing ordinal order, for every     *)
(* ordinal, those above 9999 included.                                     *)
(***************************************************************************)
C10_SortedByOrdinal ==
    \A i, j \in 1 .. Len(frame_files) : i < j => frame_files[i] < frame_files[j]

(***************************************************************************)
(* C11.  The first frame in sorted order (the smallest path) is retained   *)
(* unconditionally: it is never deleted and never the subject of a         *)
(* comparison; a scan that lists a single frame file retains it and        *)
(* compares nothing.                                                       *)
(***************************************************************************)
Listed == {frame_files[i] : i \in 1 .. Len(frame_files)}

C11_FirstFrameRetained ==
    (pc \in {"scan_loop", "scan_ok", "scan_err"} /\ Len(frame_files) >= 1) =>
        /\ \A n \in Listed : ~PathLess(n, frame_files[1])
        /\ frame_files[1] \in pngs
        /\ frame_files[1] \notin removed
        /\ \A p \in compared : p[2] # frame_files[1]
        /\ Len(frame_files) = 1 => (compared = {} /\ removed = {})

\* a first scan of several frames deleted some and kept the smallest; the second
\* scan listed that single file, kept it and compared nothing
C11_Witness ==
    /\ pc = "scan_ok"
    /\ run = 2
    /\ Cardinality(start.pngs) >= 3
    /\ Len(frame_files) = 1
    /\ idx = 1
    /\ pngs = {frame_files[1]}
    /\ \A n \in start.pngs : ~PathLess(n, frame_files[1])
    /\ compared = {}

(***************************************************************************)
(* C12.  Called on an existing directory without .png files (empty, or     *)
(* holding only other files), process_frames decodes nothing, compares     *)
(* nothing, deletes nothing and does not fail.                             *)
(***************************************************************************)
C12_NoPngNothingDone ==
    (start.dir_state = "dir" /\ start.pngs = {}) =>
        /\ pc \in {"process_frames", "scan_loop", "scan_ok"}
        /\ failure = "none"
        /\ frame_files = <<>>
        /\ idx = 0
        /\ last_image = None
        /\ compared = {}
        /\ removed = {}
        /\ pngs = {}
        /\ others = start.others

\* process_frames returned Ok on a directory holding only a .jpg file
C12_Witness ==
    /\ pc = "scan_ok"
    /\ run = 1
    /\ start.dir_state = "dir"
    /\ start.pngs = {}
    /\ others # {}

(***************************************************************************)
(* C13.  A decode failure or a deletion failure on frame i is fatal:       *)
(* process_frames returns the error at once and the process ends with an   *)
(* error; no frame after i is decoded, compared or deleted, the failed     *)
(* frame is not deleted, and the deletions made before i stay made.        *)
(***************************************************************************)
C13_FailureIsFatal ==
    failure \in {"decode", "remove_file"} =>
        /\ pc \in {"scan_err", "exit_err"}
        /\ idx < Len(frame_files)
        /\ frame_files[idx + 1] \in pngs
        /\ frame_files[idx + 1] \notin removed
        /\ failure = "decode" => \A p \in compared : p[2] # frame_files[idx + 1]
        /\ last_from \in {0} \cup {frame_files[j] : j \in 1 .. idx}
        /\ \A j \in idx + 2 .. Len(frame_files) :
              /\ frame_files[j] \in pngs
              /\ frame_files[j] \notin removed
              /\ \A p \in compared : p[1] # frame_files[j] /\ p[2] # frame_files[j]
        /\ removed \cap pngs = {}
        /\ removed = {frame_files[j] : j \in {k \in 2 .. idx :
                          NearDuplicate(ImageAt(k - 1), ImageAt(k), threshold)}}

\* four frames: the second was deleted, the third failed, the fourth was left
\* alone, and the process ended with an error
C13_Witness ==
    /\ pc = "exit_err"
    /\ failure \in {"decode", "remove_file"}
    /\ Len(frame_files) = 4
    /\ idx = 2
    /\ removed = {frame_files[2]}
    /\ pngs = {frame_files[1], frame_files[3], frame_files[4]}

(***************************************************************************)
(* C14.  When the number of arguments after the program name is not one,   *)
(* the process exits with status 1 without creating the directory,         *)
(* starting ffmpeg, or reading or deleting any file.                       *)
(***************************************************************************)
C14_UsageErrorDoesNothing ==
    args_len # 2 =>
        /\ pc \in {"main", "exit_usage"}
        /\ dir_state = start.dir_state
        /\ decoder = "not_started"
        /\ ~ScanBegun
        /\ pngs = start.pngs
        /\ others = start.others
        /\ failure = "none"

\* two arguments too many and no directory "frames": exit, and still none
C14_Witness ==
    /\ args_len = 3
    /\ pc = "exit_usage"
    /\ dir_state = "absent"

(***************************************************************************)
(* C15.  extract_frames creates the output directory when it is absent,    *)
(* and returns an error before starting ffmpeg when the directory cannot   *)
(* be created, also when the output path exists as a non-directory file.   *)
(***************************************************************************)
PastEnsureDir == pc \notin {"main", "exit_usage", "extract_frames"}

C15_DirectoryCreatedOrError ==
    /\ (start.dir_state = "absent" /\ PastEnsureDir /\ failure # "create_dir") =>
          dir_state = "dir"
    /\ failure = "create_dir" =>
          (pc = "exit_err" /\ decoder = "not_started" /\ dir_state = start.dir_state)
    /\ (start.dir_state = "file" /\ PastEnsureDir) =>
          (failure = "create_dir" /\ decoder = "not_started")

(***************************************************************************)
(* C16.  process_frames creates and renames no file: the files after the   *)
(* scan are among those before it; every file it deletes has the .png     *)
(* extension and was listed at the start of the scan; entries without the  *)
(* .png extension are left as they were.                                   *)
(***************************************************************************)
C16_OnlyListedPngsDeleted ==
    /\ pngs \subseteq start.pngs
    /\ others = start.others
    /\ Listed \subseteq start.pngs
    /\ removed \subseteq Listed
    /\ run = 1 => start.pngs \ pngs = removed
    /\ (run = 2 /\ pc # "process_frames") => survivors1 \ pngs = removed

\* a scan of a directory holding frames and a .jpg file deleted a frame
C16_Witness ==
    /\ pc = "scan_ok"
    /\ run = 1
    /\ removed # {}
    /\ others # {}
    /\ others = start.others

(***************************************************************************)
(* C17.  Symmetry: are_images_similar(A, B, t) = are_images_similar(B, A,  *)
(* t) for all images A, B and every threshold t.                           *)
(***************************************************************************)
C17_Symmetric ==
    pc = "sim_returned" => result = are_images_similar(img2, img1, threshold)

\* two different images found similar
C17_Witness ==
    /\ pc = "sim_returned"
    /\ img1 # img2
    /\ dimensions(img1) = dimensions(img2)
    /\ result = TRUE

(***************************************************************************)
(* C18.  Monotonicity: when are_images_similar(A, B, t1) is true and       *)
(* t1 < t2, are_images_similar(A, B, t2) is true.                          *)
(***************************************************************************)
RatLess(t1, t2) == t1.num * t2.den < t2.num * t1.den

C18_MonotoneInThreshold ==
    (pc = "sim_returned" /\ result) =>
        \A t2 \in SimThresholds :
            RatLess(threshold, t2) => are_images_similar(img1, img2, t2)

\* images differing in a quarter of their pixels, similar at 1/4 and at the
\* larger thresholds
C18_Witness ==
    /\ pc = "sim_returned"
    /\ threshold = Rat(1, 4)
    /\ dimensions(img1) = dimensions(img2)
    /\ Cardinality(DifferingCoords(img1, img2)) * 4 = PixelCount(img1)
    /\ PixelCount(img1) > 0
    /\ result = TRUE

(***************************************************************************)
(* C19.  For every u32 width and height, the denominator used by           *)
(* are_images_similar is the mathematical product width * height and the   *)
(* counter is the true number of differing pixels: neither the 32-bit      *)
(* product nor the 32-bit counter overflows or wraps.                      *)
(***************************************************************************)
WideDone == pc \in {"wide_returned", "panicked"}

C19_NoOverflow ==
    WideDone =>
        /\ pc = "wide_returned"
        /\ wide.total_pixels = BigMul(wide.width, wide.height)
        /\ wide.diff_count =
              Signed(FALSE, DifferingPixels(wide.width, wide.height, wide.differing))

(***************************************************************************)
(* Supporting facts, checked beside the claims.                            *)
(***************************************************************************)
\* C6 off its failing case: with at least one pixel, the result is k/N <= threshold
RatioRuleOnNonEmptyImages ==
    (pc = "sim_returned" /\ dimensions(img1) = dimensions(img2) /\ PixelCount(img1) > 0) =>
        (result <=> RatioAtMost(Cardinality(DifferingCoords(img1, img2)),
                                PixelCount(img1), threshold))

\* C10 off its failing case: ordinals of at most 4 digits sort in ordinal order
SortedByOrdinalUpTo9999 ==
    (\A n \in pngs \cup removed : n <= 9999) => C10_SortedByOrdinal

\* where width * height is below 2^31 the counter and the denominator are exact
ExactBelowI32Limit ==
    (WideDone /\ FitsI32(BigMul(wide.width, wide.height))) =>
        /\ pc = "wide_returned"
        /\ wide.total_pixels = BigMul(wide.width, wide.height)
        /\ wide.diff_count =
              Signed(FALSE, DifferingPixels(wide.width, wide.height, wide.differing))
        /\ wide.result = wide_ratio_le(wide.diff_count,
                                       BigMul(wide.width, wide.height), threshold)

\* 65536 x 65536 identical images without overflow checks: 0/0, not similar
WrappedProductSeen ==
    /\ pc = "wide_returned"
    /\ wide.width = FromInt(65536)
    /\ wide.height = FromInt(65536)
    /\ wide.differing = "none"
    /\ wide.total_pixels = <<>>
    /\ wide.result = FALSE

\* 46341 x 46341 images differing everywhere without overflow checks: the
\* counter is negative and the images are found similar
WrappedCounterSeen ==
    /\ pc = "wide_returned"
    /\ wide.width = FromInt(46341)
    /\ wide.height = FromInt(46341)
    /\ wide.differing = "all"
    /\ wide.diff_count.neg
    /\ wide.result = TRUE

====
